---- MODULE Spec2Model ----
(***************************************************************************)
(* A model of russh-agent's protocol engine, Client::run                   *)
(* (src/client/mod.rs), its two bounded channels, the duplex stream it     *)
(* owns and the packet framing it relies on.                               *)
(*                                                                         *)
(* The engine is one task looping over tokio::select! with two branches:   *)
(* self.receiver.recv() (the control channel) and Packet::read_packet on   *)
(* the stream.  The application (producers of Message, the consumer of     *)
(* response payloads) and the agent at the far end of the stream are the   *)
(* environment.                                                            *)
(***************************************************************************)
EXTENDS Integers, Sequences, FiniteSets, TLC

\* ------------------------------------------------------------------ bounds

\* Messages the producers send over one run.
MaxSends == 2
\* Frames the agent writes to the stream over one run.
MaxFrames == 2
\* Request/response turns of the serialized application (SerialSpec).
MaxTurns == 3
\* Frames the agent writes over one run of FairSpec.
MaxFairFrames == 1
\* Messages the producers of KindsSpec send over one run.
MaxKindSends == 2

\* --------------------------------------------------------- program constants

\* channel(10): the depth of both channels.
ChannelCap == 10

\* PacketKind wire codes.  Unlock's is fixed by packet/unlock.rs' test; the
\* response codes are the ones client/mod.rs' test expects to receive.
KindFailure == 5
KindSuccess == 6
KindRequestIdentities == 11
KindIdentitiesAnswer == 12
KindSignRequest == 13
KindSignResponse == 14
KindAddIdentity == 17
KindRemoveIdentity == 18
KindRemoveAll == 19
KindLock == 22
KindUnlock == 23
KindAddIdConstrained == 25

\* ------------------------------------------------------------------ bytes

Min(a, b) == IF a < b THEN a ELSE b

\* BytesMut::put_u32: a length as 4 big-endian bytes.
PutU32(n) ==
    << (n \div 16777216) % 256, (n \div 65536) % 256, (n \div 256) % 256, n % 256 >>

\* u32::from_be_bytes on the 4 bytes of a frame header.
GetU32(b) == b[1] * 16777216 + b[2] * 65536 + b[3] * 256 + b[4]

\* A Bytes value handed to a builder: its content, and whether its length
\* is beyond what a u32 holds (the content is then left out).
Blob(d) == [data |-> d, oversize |-> FALSE]
Oversize == [data |-> <<>>, oversize |-> TRUE]

\* A Result: Ok(value) or Err.
Ok(v) == [ok |-> TRUE, val |-> v]
Err == [ok |-> FALSE, val |-> <<>>]

\* utils::put_string: buf followed by the 4-byte big-endian length of s and
\* by s; an encoding error when the length does not fit the length field.
put_string(buf, s) ==
    IF ~buf.ok \/ s.oversize
    THEN Err
    ELSE Ok(buf.val \o PutU32(Len(s.data)) \o s.data)

\* ---------------------------------------------------------------- packets

Packet(k, p) == [kind |-> k, payload |-> p]

\* PacketKind::is_response, on the wire code.
is_response(k) ==
    k \in {KindFailure, KindSuccess, KindIdentitiesAnswer, KindSignResponse}

\* Finishes a builder: the packet of kind k with the encoded payload.
Built(k, enc) == IF enc.ok THEN Ok(Packet(k, enc.val)) ELSE Err

\* Mutant: the passphrase put in the payload without its length.
UnlockIntoPacketRawPassphrase(passphrase) ==
    Built(KindUnlock,
          IF passphrase.oversize THEN Err
          ELSE Ok(<<KindUnlock>> \o passphrase.data))

\* Mutant: Unlock built with Lock's kind.
UnlockIntoPacketAsLock(passphrase) ==
    Built(KindLock, put_string(Ok(<<KindLock>>), passphrase))

\* Unlock::into_packet: the kind byte, then the passphrase as a string.
UnlockIntoPacket(passphrase) ==
    Built(KindUnlock, put_string(Ok(<<KindUnlock>>), passphrase))

\* The other builders' into_packet, by the wire layout of each request: the
\* kind byte, then the request's fields.
AddIdentityIntoPacket(kind, key_blob, comment) ==
    Built(KindAddIdentity,
          put_string(put_string(put_string(Ok(<<KindAddIdentity>>), kind),
                                key_blob), comment))

AddIdentityConstrainedIntoPacket(kind, key_blob, comment, constraints) ==
    LET enc == put_string(put_string(put_string(Ok(<<KindAddIdConstrained>>), kind),
                                     key_blob), comment)
    IN  Built(KindAddIdConstrained,
              IF enc.ok THEN Ok(enc.val \o constraints.data) ELSE Err)

RemoveIdentityIntoPacket(key_blob) ==
    Built(KindRemoveIdentity, put_string(Ok(<<KindRemoveIdentity>>), key_blob))

RemoveAllIntoPacket == Built(KindRemoveAll, Ok(<<KindRemoveAll>>))

RequestIdentitiesIntoPacket ==
    Built(KindRequestIdentities, Ok(<<KindRequestIdentities>>))

SignRequestIntoPacket(key, data, flags) ==
    LET enc == put_string(put_string(Ok(<<KindSignRequest>>), key), data)
    IN  Built(KindSignRequest,
              IF enc.ok THEN Ok(enc.val \o PutU32(flags)) ELSE Err)

LockIntoPacket(passphrase) ==
    Built(KindLock, put_string(Ok(<<KindLock>>), passphrase))

\* Mutant: the length written counts the 4 header bytes too.
FrameCountsHeader(payload) == PutU32(Len(payload) + 4) \o payload

\* Packet::write_packet's frame: the payload's length as 4 big-endian bytes,
\* then the payload.
Frame(payload) == PutU32(Len(payload)) \o payload

\* --------------------------------------------------------------- messages

\* The values the producers put in their Messages.
KeyType == Blob(<<1>>)
KeyBlob == Blob(<<2>>)
Comment == Blob(<<3>>)
Passphrase == Blob(<<4>>)
SignData == Blob(<<7>>)
\* Constraint::lifetime(1000).payload(): the tag byte and 1000 in 4 bytes.
Lifetime == Blob(<<1>> \o PutU32(1000))

MsgAdd == [type |-> "Add", kind |-> KeyType, key_blob |-> KeyBlob, comment |-> Comment]
MsgAddConstrained ==
    [type |-> "AddConstrained", kind |-> KeyType, key_blob |-> KeyBlob,
     comment |-> Comment, constraints |-> Lifetime]
MsgRemove == [type |-> "Remove", key_blob |-> KeyBlob]
MsgRemoveAll == [type |-> "RemoveAll"]
MsgList == [type |-> "List"]
MsgSign == [type |-> "Sign", key |-> KeyBlob, data |-> SignData, flags |-> 0]
MsgLock == [type |-> "Lock", passphrase |-> Passphrase]
MsgUnlock == [type |-> "Unlock", passphrase |-> Passphrase]
MsgUnlockOversize == [type |-> "Unlock", passphrase |-> Oversize]
MsgShutdown == [type |-> "Shutdown"]

\* Message: what a producer may send.
Message ==
    {MsgAdd, MsgAddConstrained, MsgRemove, MsgRemoveAll, MsgList, MsgSign,
     MsgLock, MsgUnlock, MsgUnlockOversize, MsgShutdown}

None == [some |-> FALSE]
Some(v) == [some |-> TRUE, val |-> v]

\* Mutant: the builder's error is swallowed, no packet and no return.
ArmSwallowsError(res) ==
    IF res.ok
    THEN [err |-> FALSE, disconnect |-> FALSE, pkt_opt |-> Some(res.val)]
    ELSE [err |-> FALSE, disconnect |-> FALSE, pkt_opt |-> None]

\* A builder's result inside the match of run: the `?` turns Err into run's
\* return, Ok(pkt) gives (false, Some(pkt)).
Arm(res) ==
    IF res.ok
    THEN [err |-> FALSE, disconnect |-> FALSE, pkt_opt |-> Some(res.val)]
    ELSE [err |-> TRUE, disconnect |-> FALSE, pkt_opt |-> None]

\* Mutant: Shutdown handled like a request, a packet written for it.
ShutdownArmWritesPacket == Arm(RequestIdentitiesIntoPacket)

\* Mutant: Shutdown gives no packet and no disconnect flag.
ShutdownArmNoFlag == [err |-> FALSE, disconnect |-> FALSE, pkt_opt |-> None]

\* `Message::Shutdown => (true, None)`.
ShutdownArm == [err |-> FALSE, disconnect |-> TRUE, pkt_opt |-> None]

\* The match on msg in run: (disconnect, pkt_opt), or the builder's error.
MatchMessage(msg) ==
    CASE msg.type = "Add" ->
           Arm(AddIdentityIntoPacket(msg.kind, msg.key_blob, msg.comment))
      [] msg.type = "AddConstrained" ->
           Arm(AddIdentityConstrainedIntoPacket(msg.kind, msg.key_blob,
                                                msg.comment, msg.constraints))
      [] msg.type = "Remove" -> Arm(RemoveIdentityIntoPacket(msg.key_blob))
      [] msg.type = "RemoveAll" -> Arm(RemoveAllIntoPacket)
      [] msg.type = "List" -> Arm(RequestIdentitiesIntoPacket)
      [] msg.type = "Sign" -> Arm(SignRequestIntoPacket(msg.key, msg.data, msg.flags))
      [] msg.type = "Lock" -> Arm(LockIntoPacket(msg.passphrase))
      [] msg.type = "Unlock" -> Arm(UnlockIntoPacket(msg.passphrase))
      [] msg.type = "Shutdown" -> ShutdownArm

\* ------------------------------------------------------------------ state

VARIABLES
    receiver,        \* the control channel's queue (read by self.receiver)
    msg_sender,      \* TRUE while a Sender<Message> of the control channel lives
    sender,          \* the response channel's queue (fed by self.sender)
    agent_receiver,  \* TRUE while the application holds the Receiver<Bytes>
    disconnected,    \* run's loop flag
    pc,              \* where run is: "select", "send" or "returned"
    ret,             \* run's return value: "none", "Ok" or the error's class
    pkt,             \* the payload run is sending while pc = "send"
    rdbuf,           \* the bytes the pending read_packet future has read
    written,         \* the packets write_packet has put on the stream
    agent_out,       \* the payloads of the frames the agent has written
    nread,           \* how many of them run has read off the socket
    eof,             \* the agent has closed its end of the stream
    sent,            \* every Message the control channel accepted, in order
    taken,           \* how many of them run has received
    forwarded,       \* every payload run has put on the response channel
    received,        \* the payloads the application has received
    recv_end,        \* the application's recv() has returned None
    event            \* what run's last step did

vars ==
    << receiver, msg_sender, sender, agent_receiver, disconnected, pc, ret, pkt,
       rdbuf, written, agent_out, nread, eof, sent, taken, forwarded,
       received, recv_end, event >>

control_vars == << receiver, msg_sender, sent >>
stream_in_vars == << agent_out, eof >>
app_vars == << agent_receiver, received, recv_end >>
engine_vars ==
    << disconnected, pc, ret, pkt, rdbuf, written, nread, taken, forwarded, event >>

\* Client::new, then run's first line: both channels empty, every handle
\* alive, nothing on the stream, run about to enter its first select!.
Init ==
    /\ receiver = <<>>
    /\ msg_sender = TRUE
    /\ sender = <<>>
    /\ agent_receiver = TRUE
    /\ disconnected = FALSE
    /\ pc = "select"
    /\ ret = "none"
    /\ pkt = <<>>
    /\ rdbuf = <<>>
    /\ written = <<>>
    /\ agent_out = <<>>
    /\ nread = 0
    /\ eof = FALSE
    /\ sent = <<>>
    /\ taken = 0
    /\ forwarded = <<>>
    /\ received = <<>>
    /\ recv_end = FALSE
    /\ event = "start"

\* ----------------------------------------------------------------- stream

RECURSIVE Wire(_)
\* The byte stream the agent has written: its frames, one after the other.
Wire(payloads) ==
    IF payloads = <<>> THEN <<>>
    ELSE Frame(Head(payloads)) \o Wire(Tail(payloads))

\* Packet::read_packet, polled once with `have` already read by this future
\* and `avail` unread on the socket: read_exact of the 4 header bytes, then
\* read_exact of as many payload bytes as the header says.  Gives the bytes
\* the future holds afterwards and whether the frame is complete.
PollRead(have, avail) ==
    LET n1 == IF Len(have) < 4 THEN Min(4 - Len(have), Len(avail)) ELSE 0
        b1 == have \o SubSeq(avail, 1, n1)
        need == IF Len(b1) < 4 THEN 0 ELSE 4 + GetU32(b1) - Len(b1)
        n2 == Min(need, Len(avail) - n1)
        b2 == b1 \o SubSeq(avail, n1 + 1, n1 + n2)
    IN  [buf |-> b2,
         used |-> n1 + n2,
         complete |-> Len(b2) >= 4 /\ Len(b2) = 4 + GetU32(b2)]

\* The Packet read_packet makes of a complete frame: the payload after the
\* header, its kind taken from payload byte 0.  A frame without that byte
\* is a failed read.
PacketOfFrame(buf) ==
    LET payload == SubSeq(buf, 5, Len(buf))
    IN  IF payload = <<>> THEN Err ELSE Ok(Packet(payload[1], payload))

\* ------------------------------------------------------------- run's steps

\* Mutant: the write's error is dropped, run goes on.
RetAfterWriteIgnored(write_ok) == "none"

\* `pkt.write_packet(&mut stream).await?`: a failed write is run's return.
RetAfterWrite(write_ok) == IF write_ok THEN "none" ELSE "ErrWrite"

\* Mutant: the send's error is dropped, run goes on.
RetAfterSendIgnored(send_ok) == "none"

\* `self.sender.send(..).await?`: a failed send is run's return.
RetAfterSend(send_ok) == IF send_ok THEN "none" ELSE "ErrSend"

\* Mutant: a failed read is run's return.
RetAfterReadErrorFatal == "ErrRead"

\* `Err(e) => try_error!(..)`: a failed read is logged, run goes on.
RetAfterReadError == "none"

\* Mutant: the kind of the packet read is not looked at.
ForwardsAnyPacket(packet) == TRUE

\* `if packet.kind().is_response()`: whether run forwards the packet.
Forwards(packet) == is_response(packet.kind)

\* Mutant: the payload forwarded without its leading kind byte.
ForwardedPayloadSansKind(packet) == Tail(packet.payload)

\* `packet.payload().clone()`: what run forwards of the packet.
ForwardedPayload(packet) == packet.payload

\* `while !disconnected { .. } Ok(())`: where run is after a loop iteration
\* that left it with return value r and loop flag d.
RetOfLoop(r, d) == IF r = "none" /\ d THEN "Ok" ELSE r
PcOfLoop(r, d) == IF RetOfLoop(r, d) = "none" THEN "select" ELSE "returned"

\* What the control branch does with the match's result m when the write,
\* if there is one, succeeds or not: the loop flag, the return value, the
\* packet written (if any) and the name of the step.
HandleArm(m, write_ok) ==
    IF m.err
    THEN [disconnected |-> FALSE, ret |-> "ErrEncode", wrote |-> None,
          event |-> "build_failed"]
    ELSE IF m.disconnect /\ ~m.pkt_opt.some
    THEN [disconnected |-> TRUE, ret |-> "none", wrote |-> None,
          event |-> "shutdown"]
    ELSE IF m.pkt_opt.some
    THEN [disconnected |-> FALSE, ret |-> RetAfterWrite(write_ok),
          wrote |-> IF write_ok THEN m.pkt_opt ELSE None,
          event |-> IF write_ok THEN "wrote" ELSE "write_failed"]
    ELSE [disconnected |-> TRUE, ret |-> "none", wrote |-> None,
          event |-> "no_packet"]

\* select!'s first branch with Some(msg): the match, then the shutdown or
\* the write.  The read_packet future of this select! is dropped, and with
\* it the bytes it had read.
RecvMessage ==
    /\ pc = "select"
    /\ receiver # <<>>
    /\ \E write_ok \in BOOLEAN :
         LET h == HandleArm(MatchMessage(Head(receiver)), write_ok)
         IN  /\ disconnected' = h.disconnected
             /\ ret' = RetOfLoop(h.ret, h.disconnected)
             /\ pc' = PcOfLoop(h.ret, h.disconnected)
             /\ written' = IF h.wrote.some THEN Append(written, h.wrote.val)
                           ELSE written
             /\ event' = h.event
    /\ receiver' = Tail(receiver)
    /\ taken' = taken + 1
    /\ rdbuf' = <<>>
    /\ UNCHANGED << msg_sender, sent, sender, pkt, nread, forwarded >>
    /\ UNCHANGED stream_in_vars
    /\ UNCHANGED app_vars

\* Mutant: None leaves the loop flag alone, run goes on selecting.
DisconnectOnNoneMissing == FALSE

\* What run does when recv() gives None: the loop flag.
DisconnectOnNone == TRUE

\* Mutant: recv() gives None as soon as every sender is gone, whatever is
\* still queued.
RecvNoneSkipsQueued ==
    /\ pc = "select"
    /\ ~msg_sender
    /\ disconnected' = DisconnectOnNone
    /\ ret' = RetOfLoop("none", DisconnectOnNone)
    /\ pc' = PcOfLoop("none", DisconnectOnNone)
    /\ event' = "closed"
    /\ rdbuf' = <<>>
    /\ UNCHANGED << receiver, msg_sender, sent, sender, pkt, written, nread,
                    taken, forwarded >>
    /\ UNCHANGED stream_in_vars
    /\ UNCHANGED app_vars

\* select!'s first branch with None: the channel is empty and every sender
\* is gone.
RecvNone ==
    /\ pc = "select"
    /\ receiver = <<>>
    /\ ~msg_sender
    /\ disconnected' = DisconnectOnNone
    /\ ret' = RetOfLoop("none", DisconnectOnNone)
    /\ pc' = PcOfLoop("none", DisconnectOnNone)
    /\ event' = "closed"
    /\ rdbuf' = <<>>
    /\ UNCHANGED << receiver, msg_sender, sent, sender, pkt, written, nread,
                    taken, forwarded >>
    /\ UNCHANGED stream_in_vars
    /\ UNCHANGED app_vars

\* The agent's bytes that run has not read; the first n of them are on the
\* socket when run polls it.
Unread == SubSeq(Wire(agent_out), nread + 1, Len(Wire(agent_out)))
OnSocket(n) == SubSeq(Unread, 1, n)

\* The socket gives end-of-file after these n bytes: the agent has closed
\* its end and nothing else is on the way.
AtEof(n) == eof /\ n = Len(Unread)

\* select!'s second branch, polled: read_packet takes what the socket has.
\* A complete frame gives a packet, forwarded when its kind is a response
\* kind and only logged when not; an incomplete one leaves the future
\* pending, or fails it when the stream has ended.
ReadPacket(n) ==
    /\ pc = "select"
    /\ LET r == PollRead(rdbuf, OnSocket(n))
           p == PacketOfFrame(r.buf)
       IN  /\ nread' = nread + r.used
           /\ IF r.complete /\ p.ok
              THEN /\ rdbuf' = <<>>
                   /\ IF Forwards(p.val)
                      THEN /\ pkt' = ForwardedPayload(p.val)
                           /\ pc' = "send"
                           /\ event' = "read_response"
                           /\ ret' = ret
                      ELSE /\ event' = "invalid"
                           /\ UNCHANGED << pkt, pc, ret >>
              ELSE IF r.complete \/ (AtEof(n) /\ r.used = n)
              THEN /\ rdbuf' = <<>>
                   /\ event' = "read_failed"
                   /\ ret' = RetAfterReadError
                   /\ pc' = PcOfLoop(RetAfterReadError, FALSE)
                   /\ pkt' = pkt
              ELSE /\ r.used > 0
                   /\ rdbuf' = r.buf
                   /\ event' = "read_pending"
                   /\ UNCHANGED << pkt, pc, ret >>
    /\ UNCHANGED << disconnected, written, taken, forwarded, sender >>
    /\ UNCHANGED control_vars
    /\ UNCHANGED stream_in_vars
    /\ UNCHANGED app_vars

\* Mutant: a channel that takes an entry whatever it holds.
HasRoomAlways(queue) == TRUE

\* `channel(10)`: a send completes only while the queue holds fewer than
\* the channel's capacity; until then the sender stays suspended.
HasRoom(queue) == Len(queue) < ChannelCap

\* `self.sender.send(payload).await?` of the read branch: an error when the
\* receiver is gone, the payload queued when the channel has room, and
\* suspended (not enabled) while the channel is full.
SendResponse ==
    /\ pc = "send"
    /\ \/ ~agent_receiver
       \/ HasRoom(sender)
    /\ ret' = RetAfterSend(agent_receiver)
    /\ pc' = PcOfLoop(RetAfterSend(agent_receiver), FALSE)
    /\ IF agent_receiver
       THEN /\ sender' = Append(sender, pkt)
            /\ forwarded' = Append(forwarded, pkt)
            /\ event' = "sent"
       ELSE /\ event' = "send_failed"
            /\ UNCHANGED << sender, forwarded >>
    /\ UNCHANGED << disconnected, pkt, rdbuf, written, nread, taken >>
    /\ UNCHANGED control_vars
    /\ UNCHANGED stream_in_vars
    /\ UNCHANGED app_vars

Run ==
    \/ RecvMessage
    \/ RecvNone
    \/ \E n \in 0..Len(Unread) : ReadPacket(n)
    \/ SendResponse

\* -------------------------------------------------------- the application

\* A producer's `sender.send(msg).await` that the channel accepts: there is
\* room, and run still holds the receiving end.
Send(msg, max) ==
    /\ msg_sender
    /\ pc # "returned"
    /\ HasRoom(receiver)
    /\ Len(sent) < max
    /\ receiver' = Append(receiver, msg)
    /\ sent' = Append(sent, msg)
    /\ UNCHANGED << msg_sender, sender >>
    /\ UNCHANGED engine_vars
    /\ UNCHANGED stream_in_vars
    /\ UNCHANGED app_vars

\* The last Sender<Message> is dropped.
DropSender ==
    /\ msg_sender
    /\ msg_sender' = FALSE
    /\ UNCHANGED << receiver, sent, sender >>
    /\ UNCHANGED engine_vars
    /\ UNCHANGED stream_in_vars
    /\ UNCHANGED app_vars

\* The application's `receiver.recv().await` giving Some(msg).
Recv ==
    /\ agent_receiver
    /\ sender # <<>>
    /\ received' = Append(received, Head(sender))
    /\ sender' = Tail(sender)
    /\ UNCHANGED << agent_receiver, recv_end >>
    /\ UNCHANGED engine_vars
    /\ UNCHANGED control_vars
    /\ UNCHANGED stream_in_vars

\* Mutant: self.sender outlives run unless run returned Ok(()).
RecvEndOnlyAfterOk ==
    /\ agent_receiver
    /\ ~recv_end
    /\ sender = <<>>
    /\ ret = "Ok"
    /\ recv_end' = TRUE
    /\ UNCHANGED << agent_receiver, received, sender >>
    /\ UNCHANGED engine_vars
    /\ UNCHANGED control_vars
    /\ UNCHANGED stream_in_vars

\* The application's `receiver.recv().await` giving None: the channel is
\* empty and run, returning, has dropped self.sender.
RecvEnd ==
    /\ agent_receiver
    /\ ~recv_end
    /\ sender = <<>>
    /\ pc = "returned"
    /\ recv_end' = TRUE
    /\ UNCHANGED << agent_receiver, received, sender >>
    /\ UNCHANGED engine_vars
    /\ UNCHANGED control_vars
    /\ UNCHANGED stream_in_vars

\* The application drops its Receiver<Bytes>.
DropReceiver ==
    /\ agent_receiver
    /\ ~recv_end
    /\ agent_receiver' = FALSE
    /\ UNCHANGED << received, recv_end, sender >>
    /\ UNCHANGED engine_vars
    /\ UNCHANGED control_vars
    /\ UNCHANGED stream_in_vars

\* ---------------------------------------------------------------- the agent

\* The payloads the agent writes: a response, and a request-shaped packet
\* no agent should send.
AgentPayloads == {<<KindSuccess>>, <<KindRequestIdentities>>}

\* The agent writes one frame to its end of the stream.
AgentWrite(payload, max) ==
    /\ ~eof
    /\ Len(agent_out) < max
    /\ agent_out' = Append(agent_out, payload)
    /\ UNCHANGED << eof, sender >>
    /\ UNCHANGED engine_vars
    /\ UNCHANGED control_vars
    /\ UNCHANGED app_vars

\* The agent closes its end of the stream.
AgentClose ==
    /\ ~eof
    /\ eof' = TRUE
    /\ UNCHANGED << agent_out, sender >>
    /\ UNCHANGED engine_vars
    /\ UNCHANGED control_vars
    /\ UNCHANGED app_vars

\* The Messages the producers of Spec send: the two of the module's example.
Requests == {MsgList, MsgShutdown}

Application ==
    \/ \E msg \in Requests : Send(msg, MaxSends)
    \/ DropSender
    \/ Recv
    \/ RecvEnd
    \/ DropReceiver

Agent ==
    \/ \E payload \in AgentPayloads : AgentWrite(payload, MaxFrames)
    \/ AgentClose

Next == Run \/ Application \/ Agent

Spec == Init /\ [][Next]_vars

\* FairSpec: the application and the agent of Spec, with the scheduling run
\* can count on.  select! polls its branches in a random order, so a control
\* branch that is ready again and again is taken; a send that can complete
\* does, and the application goes on receiving while it holds its receiver.
FairAgent ==
    \/ \E payload \in AgentPayloads : AgentWrite(payload, MaxFairFrames)
    \/ AgentClose

FairNext == Run \/ Application \/ FairAgent

FairSpec ==
    /\ Init
    /\ [][FairNext]_vars
    /\ SF_vars(RecvMessage)
    /\ SF_vars(RecvNone)
    /\ WF_vars(SendResponse)
    /\ WF_vars(Recv)

\* ReceiverSpec: FairSpec with an application whose receiver loop goes on
\* to its end: a recv() that can give None does.
ReceiverSpec == FairSpec /\ WF_vars(RecvEnd)

\* KindsSpec: producers sending every variant of Message, in front of an
\* agent that answers at most once.
KindsApplication ==
    \/ \E msg \in Message : Send(msg, MaxKindSends)
    \/ DropSender
    \/ Recv
    \/ RecvEnd
    \/ DropReceiver

KindsAgent ==
    \/ AgentWrite(<<KindSuccess>>, 1)
    \/ AgentClose

KindsNext == Run \/ KindsApplication \/ KindsAgent

KindsSpec == Init /\ [][KindsNext]_vars

\* SerialSpec: the application of the test, one turn at a time.  It sends a
\* Message only when every Message before it has had its response received,
\* ends with Shutdown (or by dropping its sender), and keeps receiving; the
\* agent answers each request written to it with one response, in order.
SerialRequests == {MsgList, MsgLock}
SerialAnswers ==
    {<<KindIdentitiesAnswer, 0, 0, 0, 0>>, <<KindSuccess>>, <<KindFailure>>}

TurnOver == Len(received) = Len(sent)

SerialSend(msg) == TurnOver /\ Send(msg, MaxTurns)
SerialShutdown == TurnOver /\ Send(MsgShutdown, MaxTurns + 1)
SerialDrop == TurnOver /\ DropSender
AgentAnswer(payload) == AgentWrite(payload, Len(written))

SerialNext ==
    \/ Run
    \/ \E msg \in SerialRequests : SerialSend(msg)
    \/ SerialShutdown
    \/ SerialDrop
    \/ Recv
    \/ RecvEnd
    \/ \E payload \in SerialAnswers : AgentAnswer(payload)

SerialSpec == Init /\ [][SerialNext]_vars

\* CapSpec: one producer sending List after List and an agent answering
\* Success after Success, enough of each to fill both channels; the socket
\* gives run each frame whole.
MaxCapSends == 11
MaxCapFrames == 11

CapSend == Send(MsgList, MaxCapSends)
CapAgentWrite == AgentWrite(<<KindSuccess>>, MaxCapFrames)
ReadFrame == ReadPacket(Len(Unread))

CapNext ==
    \/ RecvMessage
    \/ RecvNone
    \/ ReadFrame
    \/ SendResponse
    \/ CapSend
    \/ DropSender
    \/ Recv
    \/ RecvEnd
    \/ CapAgentWrite

CapSpec == Init /\ [][CapNext]_vars

\* UnlockSpec: Unlock::new(passphrase) for passphrases of every length up
\* to MaxPass, one long enough to need the length's second byte, and one
\* too long for the length field; run starts with one or two of them
\* queued and builds the packet of each.
MaxPass == 2
PassBytes == {0, 255}
LongPassphrase == Blob([i \in 1..300 |-> i % 256])
Passphrases ==
    {Blob(s) : s \in UNION {[1..n -> PassBytes] : n \in 0..MaxPass}}
        \cup {LongPassphrase, Oversize}
UnlockNew(passphrase) == [type |-> "Unlock", passphrase |-> passphrase]
UnlockQueues ==
    {<<UnlockNew(p)>> : p \in Passphrases}
        \cup {<<UnlockNew(p), UnlockNew(q)>> : p \in Passphrases, q \in Passphrases}

UnlockInit ==
    /\ receiver \in UnlockQueues
    /\ sent = receiver
    /\ msg_sender = TRUE
    /\ sender = <<>>
    /\ agent_receiver = TRUE
    /\ disconnected = FALSE
    /\ pc = "select"
    /\ ret = "none"
    /\ pkt = <<>>
    /\ rdbuf = <<>>
    /\ written = <<>>
    /\ agent_out = <<>>
    /\ nread = 0
    /\ eof = FALSE
    /\ taken = 0
    /\ forwarded = <<>>
    /\ received = <<>>
    /\ recv_end = FALSE
    /\ event = "start"

UnlockNext == RecvMessage

UnlockSpec == UnlockInit /\ [][UnlockNext]_vars

\* EchoSpec: write_packet, then read_packet of the same bytes.  run starts
\* with up to MaxEcho Messages queued, of the five shapes of payload the
\* builders make, and writes the packet of each; the far end of the stream
\* then gives the frames written back, and run reads them, the socket
\* handing them over in pieces of any size.
MaxEcho == 2
EchoMessages == {MsgList, MsgUnlock, MsgAdd, MsgAddConstrained, MsgSign}
EchoQueues ==
    UNION {[1..n -> EchoMessages] : n \in 1..MaxEcho}

EchoInit ==
    /\ receiver \in EchoQueues
    /\ sent = receiver
    /\ msg_sender = TRUE
    /\ sender = <<>>
    /\ agent_receiver = TRUE
    /\ disconnected = FALSE
    /\ pc = "select"
    /\ ret = "none"
    /\ pkt = <<>>
    /\ rdbuf = <<>>
    /\ written = <<>>
    /\ agent_out = <<>>
    /\ nread = 0
    /\ eof = FALSE
    /\ taken = 0
    /\ forwarded = <<>>
    /\ received = <<>>
    /\ recv_end = FALSE
    /\ event = "start"

\* The far end writes back the next frame run wrote, once run has written
\* the packet of every Message queued.
Echo ==
    /\ receiver = <<>>
    /\ Len(agent_out) < Len(written)
    /\ AgentWrite(written[Len(agent_out) + 1].payload, Len(written))

EchoNext ==
    \/ RecvMessage
    \/ Echo
    \/ \E n \in 0..Len(Unread) : ReadPacket(n)

EchoSpec == EchoInit /\ [][EchoNext]_vars

\* ----------------------------------------------------------------- claims

IsPrefix(s, t) == Len(s) <= Len(t) /\ SubSeq(t, 1, Len(s)) = s

\* C1: once run has received Message::Shutdown it has returned Ok(()); the
\* Shutdown is the last Message it ever receives (what is queued behind it
\* stays in the channel) and no packet is written for it or after it: the
\* packets written are those of the Messages before it.
C1_ShutdownReturnsOk ==
    \A i \in 1..taken :
        sent[i] = MsgShutdown =>
            /\ i = taken
            /\ ret = "Ok"
            /\ pc = "returned"
            /\ Len(written) = i - 1
            /\ receiver = SubSeq(sent, i + 1, Len(sent))

\* C1's case: Shutdown received while another Message is queued behind it.
C1_Witness ==
    /\ taken > 0
    /\ sent[taken] = MsgShutdown
    /\ receiver # <<>>
    /\ ret = "Ok"

\* The read branch's step that completes a frame: the packet it reads.
FrameRead == PollRead(rdbuf, OnSocket(nread' - nread))
ReadsPacket ==
    /\ pc = "select"
    /\ nread' > nread
    /\ FrameRead.complete
    /\ PacketOfFrame(FrameRead.buf).ok
PacketRead == PacketOfFrame(FrameRead.buf).val

\* Every payload on the response channel, put there or about to be.
AllResponseKind ==
    /\ \A i \in 1..Len(forwarded) : is_response(forwarded[i][1])
    /\ \A i \in 1..Len(sender) : is_response(sender[i][1])
    /\ pc = "send" => is_response(pkt[1])

\* C2: a packet read whose kind is not a response kind is never placed on
\* the response channel, and reading it leaves run running, back at its
\* select!, with nothing forwarded.
C2_InvalidPacketDropped ==
    [][ /\ AllResponseKind'
        /\ (ReadsPacket /\ ~is_response(PacketRead.kind)) =>
              /\ pc' = "select"
              /\ ret' = "none"
              /\ ~disconnected'
              /\ forwarded' = forwarded
              /\ sender' = sender ]_vars

\* C2's case: a request-shaped packet was read and dropped, and run went on
\* to forward the response that followed it.
C2_Witness ==
    /\ Len(agent_out) = 2
    /\ ~is_response(agent_out[1][1])
    /\ forwarded = << agent_out[2] >>
    /\ ret = "none"

RECURSIVE ResponsesWithin(_, _)
\* The payloads of the response-kind frames that lie wholly within the
\* first n bytes of the stream the agent wrote.
ResponsesWithin(payloads, n) ==
    IF payloads = <<>> \/ Len(Frame(Head(payloads))) > n
    THEN <<>>
    ELSE (IF is_response(Head(payloads)[1]) THEN << Head(payloads) >> ELSE <<>>)
         \o ResponsesWithin(Tail(payloads), n - Len(Frame(Head(payloads))))

\* The payloads run has put on the response channel, with the one it is
\* putting there (or failed to, the receiver gone).
Handled ==
    forwarded \o (IF pc = "send" \/ ret = "ErrSend" THEN << pkt >> ELSE <<>>)

\* C3: the payloads run has put on the response channel are, in order and
\* byte for byte, the payloads of the response-kind packets whose frames run
\* has taken whole off the stream: none dropped, duplicated, reordered or
\* altered.
C3_ForwardedAreArrived == Handled = ResponsesWithin(agent_out, nread)

\* The packet kind each Message variant is to be written as.
KindOfMessage(msg) ==
    CASE msg.type = "Add" -> KindAddIdentity
      [] msg.type = "AddConstrained" -> KindAddIdConstrained
      [] msg.type = "Remove" -> KindRemoveIdentity
      [] msg.type = "RemoveAll" -> KindRemoveAll
      [] msg.type = "List" -> KindRequestIdentities
      [] msg.type = "Sign" -> KindSignRequest
      [] msg.type = "Lock" -> KindLock
      [] msg.type = "Unlock" -> KindUnlock

\* The Messages run has received that ask for a packet: all of them but a
\* final Shutdown.
RequestsTaken ==
    IF taken > 0 /\ sent[taken] = MsgShutdown THEN taken - 1 ELSE taken

\* C4: while run has met no fatal error, the control channel is FIFO (what
\* run has received and what is still queued are, together, what was sent,
\* in order) and the packets written are exactly one per non-Shutdown
\* Message received, in that order, each of the kind of its Message.
C4_WrittenAreRequests ==
    ret \in {"none", "Ok"} =>
        /\ taken <= Len(sent)
        /\ receiver = SubSeq(sent, taken + 1, Len(sent))
        /\ Len(written) = RequestsTaken
        /\ \A j \in 1..RequestsTaken :
             /\ written[j].kind = KindOfMessage(sent[j])
             /\ written[j].payload[1] = KindOfMessage(sent[j])

\* C4's case: two Messages of different kinds written, Unlock then Add.
C4_Witness ==
    /\ ret = "none"
    /\ Len(written) = 2
    /\ written[1].kind = KindUnlock
    /\ written[2].kind = KindAddIdentity

\* The requests among the Messages sent: all but a final Shutdown.
RequestsSent ==
    IF sent # <<>> /\ sent[Len(sent)] = MsgShutdown THEN Len(sent) - 1
    ELSE Len(sent)

\* C5: with the application taking turns and the agent answering each
\* request once, in order, the response channel delivers the agent's
\* answers in order, never more than one per request written; when run has
\* returned Ok every request has had its answer forwarded, and the receiver,
\* after the last of them, is given end-of-channel.
C5_OneResponsePerRequest ==
    /\ IsPrefix(received, agent_out)
    /\ received \o sender = forwarded
    /\ Len(forwarded) <= Len(written)
    /\ ret = "Ok" =>
          /\ forwarded = agent_out
          /\ Len(forwarded) = RequestsSent
          /\ (sender = <<>> /\ ~recv_end) => ENABLED RecvEnd
    /\ recv_end =>
          /\ received = forwarded
          /\ ret # "none"

\* C5's case: every turn taken, Shutdown sent, the responses received and
\* then end-of-channel.
C5_Witness ==
    /\ recv_end
    /\ ret = "Ok"
    /\ Len(sent) = MaxTurns + 1
    /\ sent[Len(sent)] = MsgShutdown
    /\ Len(received) = MaxTurns
    /\ received = agent_out

\* A Shutdown has been accepted by the control channel.
ShutdownSent == \E i \in 1..Len(sent) : sent[i] = MsgShutdown

ControlClosed == ~msg_sender /\ receiver = <<>>

WriteFails ==
    /\ taken' = taken + 1
    /\ MatchMessage(Head(receiver)).pkt_opt.some
    /\ written' = written

\* C8: a failed write_packet makes run return that error, and from then on
\* no Message is received, no packet written and no payload forwarded.
C8_WriteErrorIsFatal ==
    [][ /\ WriteFails => (ret' = "ErrWrite" /\ pc' = "returned")
        /\ ret = "ErrWrite" =>
              /\ ret' = ret
              /\ pc' = "returned"
              /\ taken' = taken
              /\ receiver' = receiver
              /\ written' = written
              /\ forwarded' = forwarded
              /\ IsPrefix(sender', sender) ]_vars

\* C8's case: the write failed with a Message still queued and a frame of
\* the agent unread.
C8_Witness ==
    /\ ret = "ErrWrite"
    /\ receiver # <<>>
    /\ Unread # <<>>

\* C9: with the response receiver dropped, run's send of a response fails
\* and run returns that error, nothing put on the channel; no other step
\* gives that error, and dropping the receiver does not by itself end run.
C9_DroppedReceiverIsFatal ==
    [][ /\ (pc = "send" /\ pc' # "send" /\ ~agent_receiver) =>
              /\ ret' = "ErrSend"
              /\ pc' = "returned"
              /\ forwarded' = forwarded
              /\ sender' = sender
        /\ (ret = "none" /\ ret' = "ErrSend") =>
              /\ pc = "send"
              /\ ~agent_receiver
              /\ is_response(pkt[1])
        /\ (agent_receiver /\ ~agent_receiver') => (ret' = ret /\ pc' = pc) ]_vars

\* C9's case: responses were forwarded, the receiver was dropped, and the
\* next response made run return the error.
C9_Witness ==
    /\ ret = "ErrSend"
    /\ forwarded # <<>>
    /\ ~agent_receiver

\* The Message run receives next is a Shutdown.
ShutdownIsNext == receiver # <<>> /\ Head(receiver) = MsgShutdown

\* The read branch's step whose read_packet fails.
ReadFails ==
    /\ pc = "select"
    /\ event' = "read_failed"
    /\ taken' = taken
    /\ UNCHANGED << control_vars, stream_in_vars, app_vars >>

\* C10: a failed read_packet leaves run running at its select!, nothing
\* forwarded for it; and a Shutdown then at the head of the control channel,
\* or the channel then closed, still makes run return Ok(()).
C10_ReadErrorNotFatal ==
    /\ [][ReadFails =>
             /\ ret' = "none"
             /\ pc' = "select"
             /\ forwarded' = forwarded
             /\ sender' = sender]_vars
    /\ (event = "read_failed" /\ (ShutdownIsNext \/ ControlClosed)) ~> (ret = "Ok")

\* C10's case: a read has failed while a Shutdown waits in the channel.
C10_Witness ==
    /\ event = "read_failed"
    /\ ret = "none"
    /\ ShutdownIsNext

\* The control branch's step whose packet builder fails: an Unlock is
\* received and its into_packet gives an encoding error.
BuildFails ==
    /\ taken' = taken + 1
    /\ Head(receiver).type = "Unlock"
    /\ ~UnlockIntoPacket(Head(receiver).passphrase).ok

\* C11: when building the packet of a received Message fails, run returns
\* that error in the same step with nothing written for the Message, and
\* from then on nothing is received, written or forwarded.
C11_BuildErrorIsFatal ==
    [][ /\ BuildFails =>
              /\ ret' = "ErrEncode"
              /\ pc' = "returned"
              /\ written' = written
        /\ ret = "ErrEncode" =>
              /\ ret' = ret
              /\ pc' = "returned"
              /\ taken' = taken
              /\ receiver' = receiver
              /\ written' = written
              /\ forwarded' = forwarded ]_vars

\* C11's case: an Unlock with a passphrase too long to encode was received
\* after a Message that was written, and run has returned the error.
C11_Witness ==
    /\ ret = "ErrEncode"
    /\ taken = 2
    /\ sent[2] = MsgUnlockOversize
    /\ Len(written) = 1

\* The response branch's step whose send fails: the receiver is gone.
SendFails == pc = "send" /\ pc' # "send" /\ ~agent_receiver

\* C12: run returns Ok(()) only in the step that receives a Shutdown or
\* finds the control channel closed, and an error only in a step whose
\* packet build, stream write or response send fails, the error being of
\* that class; once run has returned, its return value stays and nothing
\* more is received, written or forwarded.
C12_ReturnsAndStops ==
    [][ /\ ret' \in {"none", "Ok", "ErrEncode", "ErrWrite", "ErrSend"}
        /\ (ret' = "none") = (pc' # "returned")
        /\ (ret = "none" /\ ret' = "Ok") =>
              \/ taken' = taken + 1 /\ Head(receiver) = MsgShutdown
              \/ taken' = taken /\ ControlClosed
        /\ (ret = "none" /\ ret' = "ErrEncode") => BuildFails
        /\ (ret = "none" /\ ret' = "ErrWrite") => WriteFails
        /\ (ret = "none" /\ ret' = "ErrSend") => SendFails
        /\ pc = "returned" =>
              /\ pc' = "returned"
              /\ ret' = ret
              /\ disconnected' = disconnected
              /\ taken' = taken
              /\ receiver' = receiver
              /\ written' = written
              /\ forwarded' = forwarded
              /\ nread' = nread
              /\ IsPrefix(sender', sender) ]_vars

\* C12's case: run has written a packet and then returned Ok on the closed
\* channel, while a frame of the agent is on the stream unread.
C12_Witness ==
    /\ ret = "Ok"
    /\ ControlClosed
    /\ written # <<>>
    /\ Unread # <<>>

\* C13: neither channel ever holds more than 10 entries.  A producer's send
\* completes exactly when the control channel has a free slot, and run's
\* send of a response exactly when the response channel has one; a full
\* channel drops and overwrites nothing: what was accepted and not yet
\* received is what it holds, in order.
C13_ChannelsBounded ==
    /\ Len(receiver) <= 10
    /\ Len(sender) <= 10
    /\ (msg_sender /\ pc # "returned" /\ Len(sent) < MaxCapSends) =>
          (ENABLED CapSend <=> Len(receiver) < 10)
    /\ (pc = "send" /\ agent_receiver) =>
          (ENABLED SendResponse <=> Len(sender) < 10)
    /\ receiver = SubSeq(sent, taken + 1, Len(sent))
    /\ received \o sender = forwarded

\* C13's case: both channels are full, a producer and run each suspended
\* in a send.
C13_Witness ==
    /\ Len(receiver) = 10
    /\ Len(sender) = 10
    /\ pc = "send"
    /\ msg_sender
    /\ Len(sent) < MaxCapSends

\* The number whose 4-byte big-endian form is bytes i..i+3 of b.
BigEndian32(b, i) ==
    b[i] * 16777216 + b[i + 1] * 65536 + b[i + 2] * 256 + b[i + 3]

\* The Unlock packet of a passphrase: kind Unlock, and a payload of the
\* code 23, the passphrase's length in 4 big-endian bytes, the passphrase.
IsUnlockPacket(packet, passphrase) ==
    /\ packet.kind = KindUnlock
    /\ Len(packet.payload) = 5 + Len(passphrase)
    /\ packet.payload[1] = 23
    /\ \A i \in 2..5 : packet.payload[i] \in 0..255
    /\ BigEndian32(packet.payload, 2) = Len(passphrase)
    /\ SubSeq(packet.payload, 6, Len(packet.payload)) = passphrase

\* The i-th Unlock received had its packet built: it was written, or is
\* the one whose write failed.
PacketBuilt(i) == i <= Len(written) \/ (i = taken /\ ret = "ErrWrite")

\* C14 as stated: for every passphrase into_packet returns a Packet, of
\* kind Unlock with the payload 23, length, passphrase.
C14_UnlockAlwaysBuilds ==
    /\ \A i \in 1..taken : PacketBuilt(i)
    /\ \A j \in 1..Len(written) :
          IsUnlockPacket(written[j], sent[j].passphrase.data)

\* C14 amended: for every passphrase whose length fits the 4-byte length
\* field into_packet returns a Packet, of kind Unlock with the payload 23,
\* length, passphrase, so that payload byte 0 is the code of its kind; for
\* a longer passphrase it returns the encoding error and no Packet.
C14_UnlockBuildsEncodable ==
    /\ \A i \in 1..taken :
          /\ ~sent[i].passphrase.oversize => PacketBuilt(i)
          /\ sent[i].passphrase.oversize =>
                (i = taken /\ ~PacketBuilt(i) /\ ret = "ErrEncode")
    /\ \A j \in 1..Len(written) :
          /\ IsUnlockPacket(written[j], sent[j].passphrase.data)
          /\ written[j].payload[1] = written[j].kind

\* C14's case: the packets of a 2-byte passphrase and of the 300-byte one
\* have been built and written.
C14_Witness ==
    /\ Len(written) = 2
    /\ Len(sent[1].passphrase.data) = 2
    /\ sent[2].passphrase = LongPassphrase

RECURSIVE FramesWithin(_, _)
\* How many of the frames of these payloads lie wholly within the first n
\* bytes of their stream.
FramesWithin(payloads, n) ==
    IF payloads = <<>> \/ 4 + Len(Head(payloads)) > n
    THEN 0
    ELSE 1 + FramesWithin(Tail(payloads), n - (4 + Len(Head(payloads))))

ControlIteration ==
    /\ pc = "select"
    /\ taken' = taken + 1
    /\ pc' = "select"

\* C16: an iteration that handles a control Message leaves the inbound
\* stream untouched: the read_packet that lost the select! has consumed
\* no byte that the next read_packet does not get, so the bytes of a
\* partly arrived frame that were read are still held after it.
C16_ControlLeavesInbound ==
    [][ControlIteration => (nread' = nread /\ rdbuf' = rdbuf)]_vars

\* The i-th Message the control channel accepted, no Shutdown before it or
\* in its place.
AheadOfShutdown(i) ==
    /\ i <= Len(sent)
    /\ \A j \in 1..i : sent[j] # MsgShutdown

\* run has met a fatal error.
FatalError == ret \in {"ErrEncode", "ErrWrite", "ErrSend"}

ClosedWithQueued == ~msg_sender /\ receiver # <<>>

C19_ReturnEndsReceiver ==
    /\ [](agent_receiver => received \o sender = forwarded)
    /\ [](recv_end => (pc = "returned" /\ received = forwarded))
    /\ []((pc = "returned" /\ agent_receiver /\ ~recv_end /\ sender = <<>>)
             => ENABLED RecvEnd)
    /\ [][pc = "returned" => (forwarded' = forwarded /\ IsPrefix(sender', sender))]_vars
    /\ (pc = "returned" /\ agent_receiver) ~> (recv_end \/ ~agent_receiver)

\* C19's case: run returned an error with a forwarded payload still in the
\* channel; the receiver was given that payload and then None.
C19_Witness ==
    /\ ret = "ErrWrite"
    /\ recv_end
    /\ received # <<>>
    /\ received = forwarded

\* The pair (disconnect, pkt_opt) the match gives for a Message is the one
\* of its variant: (true, None) for Shutdown, (false, Some(packet)) for
\* any other.
PairOfVariant(msg) ==
    LET m == MatchMessage(msg)
    IN  IF msg.type = "Shutdown"
        THEN m.disconnect /\ ~m.pkt_opt.some
        ELSE ~m.disconnect /\ m.pkt_opt.some

\* C20: for every Message run has received whose match gave a pair (the
\* builder did not fail), the pair is (true, None) for Shutdown and
\* (false, Some(packet)) otherwise; the final else branch of the control
\* branch is never taken, and the loop flag is set only by a Shutdown or
\* by the closed channel.
C20_NoPacketUnreachable ==
    /\ event # "no_packet"
    /\ \A i \in 1..taken :
          ~MatchMessage(sent[i]).err => PairOfVariant(sent[i])
    /\ disconnected =>
          \/ taken > 0 /\ sent[taken] = MsgShutdown
          \/ ControlClosed

\* C20's case: run has received a Message of each shape of pair, an Add
\* whose packet it wrote and then a Shutdown.
C20_Witness ==
    /\ taken = 2
    /\ sent[1] = MsgAdd
    /\ Len(written) = 1
    /\ sent[2] = MsgShutdown
    /\ disconnected

====
